---- MODULE Spec2Model ----
(***************************************************************************)
(* Arsenic: the photo pipeline of parse_backup (src/src/parser/             *)
(* backup_parser.py): the artifact loop, the taxonomy query, the standard   *)
(* extraction retrieve_photos_from_backup, the fallback checks that follow  *)
(* it and the reconciliation of the photo output directory, as run by the   *)
(* UI's start_parse (src/src/ui/app.py).                                    *)
(***************************************************************************)
EXTENDS FiniteSets, Integers, Naturals, Sequences, TLC

(* ------------------------------ bounds -------------------------------- *)

\* Most rows the filtered taxonomy result (filtered_df) has.
MaxRecords == 2

\* The most rows of the taxonomy query followed in SpecFilter.
MaxCatalog == 3

\* The most backups started in SpecBackup, and parses in SpecParse.
MaxBackups == 2
MaxParses == 2

\* The longest list whose summary is followed in SpecSummary.
MaxItems == 11

(* ---------------------------- Python values --------------------------- *)

\* A Python name that is None or unbound is <<>>, a bound one is <<value>>.
Nothing == <<>>

Some(v) == <<v>>

IsSet(o) == o # <<>>

Get(o) == o[1]

\* The elements of a list.
Range(s) == { s[k] : k \in 1..Len(s) }

\* taxonomy_target=None, the default of parse_backup's parameter.
NoTarget == "None"

Targets == {NoTarget, "firearm"}

(* ------------------------- the world of a parse ----------------------- *)

\* ZASSET.ZDIRECTORY and ZASSET.ZFILENAME values of the photo database.
\* A directory whose name holds a lone surrogate code point (written
\* here <U+DC80>): a str that str.encode('UTF-8', errors='strict')
\* rejects with UnicodeEncodeError.
SurrogatePaths == {"DCIM/<U+DC80>"}

Paths == {"DCIM/100APPLE", "DCIM/101APPLE"} \cup SurrogatePaths

Filenames == {"IMG_0001.JPG", "IMG_0002.JPG"}

\* What os.listdir(file_output_destination) can return: the extracted
\* artifacts in any order, with or without Photos.sqlite among them.
ArtifactListings ==
    { <<>>, <<"sms.db">>, <<"Photos.sqlite">>,
      <<"Photos.sqlite", "sms.db">>, <<"sms.db", "Photos.sqlite">> }

\* 'Photos.sqlite' in artifact
IsPhotosArtifact(artifact) == artifact = "Photos.sqlite"

\* The rows filtered_df can hold: the columns the pipeline reads.
Rows == [Path : Paths, Filename : Filenames]

RowSeqs == UNION { [1..n -> Rows] : n \in 0..MaxRecords }

\* hashlib.sha1(...).hexdigest(), idealised as collision free: the digest
\* is a tag around the exact bytes hashed.
sha1(bytes) == <<"sha1", bytes>>

\* str.lower() on the paths of the model that hold an upper case letter.
Lower(path) ==
    IF path = "DCIM/100APPLE/IMG_0001.JPG" THEN "dcim/100apple/img_0001.jpg"
    ELSE path

\* Mutant: the path is put in lower case before it is hashed.
calculate_itunes_photofile_name_CaseFolded(filepathinbackup) ==
    sha1("CameraRollDomain-Media/" \o Lower(filepathinbackup))

\* calculate_itunes_photofile_name: the backup file name of a photo path.
calculate_itunes_photofile_name(filepathinbackup) ==
    sha1("CameraRollDomain-Media/" \o filepathinbackup)

\* Line 1424: builtpath.encode(encoding='UTF-8', errors='strict') returns
\* the bytes of a str unless the str holds a lone surrogate.
Utf8Encodable(filepathinbackup) ==
    \A p \in SurrogatePaths, f \in Filenames :
        filepathinbackup # p \o "/" \o f

\* pathdf = filtered_df['Path'] + '/' + filtered_df['Filename']
pathdf(df) == [i \in 1..Len(df) |-> df[i].Path \o "/" \o df[i].Filename]

\* The name under which Backup.extract_file_id writes an entry into a
\* directory: the base name of the relative path the file ID is the hash
\* of (the backup's own manifest maps the ID back to that path).
EntryFilename(ID) ==
    LET r == CHOOSE r \in Rows :
                 sha1("CameraRollDomain-Media/" \o r.Path \o "/" \o r.Filename) = ID
    IN  r.Filename

\* What one call of Backup.extract_file_id can do: MissingEntryError for
\* an ID the backup has no entry for; for an ID it has, the file is
\* written, or writing it raises an IOError or some other exception.
ExtractOutcomes(ID, entries) ==
    IF ID \in entries THEN {"ok", "IOError", "Exception"}
                      ELSE {"MissingEntryError"}

\* What Backup.from_path can do.
OpenOutcomes == {"ok", "IOError", "Exception"}

\* The attributes class parse_ios_backup binds (lines 818-1762).
parse_ios_backup ==
    { "taxonomy_Dict", "phonetype", "devicename", "phonenum", "imei",
      "serialnum", "target", "list_of_paths", "now", "parse_args",
      "parse_info_plist", "replace_taxonomy_id_w_descr",
      "format_as_percentage", "mac_absolute_time_to_datetime",
      "photo_taxonomy", "sqlite_run_accounts3",
      "sqlite_run_addressbook", "sqlite_run_datausage",
      "sqlite_run_callhistory", "sqlite_run_notes",
      "sqlite_run_safarihistory", "sqlite_run_TCC", "sqlite_run_SMS",
      "sqlite_run_interactionC", "retrieve_files_from_backup",
      "calculate_itunes_photofile_name",
      "retrieve_photos_from_backup", "save_to_csv", "save_to_json",
      "parse_backup" }

\* The names module backup_parser binds: its imports, its top-level
\* assignments, functions and class, and the names its functions declare
\* global.
backup_parser_globals ==
    { "phonetype", "devicename", "imei", "phonenum", "serialnum",
      "argparse", "Backup", "MissingEntryError", "plistlib",
      "sqlite3", "os", "re", "datetime", "timedelta", "pd", "sha1",
      "time", "pagesizes", "PDFText", "SimpleDocTemplate", "Table",
      "TableStyle", "Image", "Paragraph", "Frame", "Spacer",
      "KeepInFrame", "HRFlowable", "colors", "cm", "LETTER",
      "landscape", "portrait", "legal", "ParagraphStyle",
      "getSampleStyleSheet", "TA_LEFT", "TA_RIGHT", "TA_CENTER",
      "TA_JUSTIFY", "canvas", "KeepTogether", "Models_Dictionary",
      "taxonomy_Dict", "replace_taxonomy_id_w_descr",
      "format_as_percentage", "mac_absolute_time_to_datetime",
      "save_report_with_device_info", "photo_taxonomy",
      "parse_backup", "parse_ios_backup", "format_device_info_header",
      "create_timeline_report", "create_sms_description",
      "display_photos", "convert_timezone" }

\* Mutant: every name looked up is bound.
Lookup_AllBound(bound, name, error) == "ok"

\* Looking a name up among the names a scope binds: found, or the error
\* of that scope.
Lookup(bound, name, error) == IF name \in bound THEN "ok" ELSE error

\* Evaluating parse_ios_backup.<name>: the method, or AttributeError.
ClassLookup(name) == Lookup(parse_ios_backup, name, "AttributeError")

\* Evaluating the bare name <name> inside parse_backup: NameError if the
\* module does not bind it.
GlobalLookup(name) == Lookup(backup_parser_globals, name, "NameError")

(* -------------------------------- state ------------------------------- *)

VARIABLES
    pc,                       \* where parse_backup (and its callee) stands
    taxonomy_target,          \* parameter of parse_backup
    artifacts,                \* recovered_files of the artifact loop
    ai,                       \* index of the artifact the loop is at
    photo_output_destination, \* Nothing, or Some(directory) once created
    photo_dir,                \* file names present in that directory
    filtered_df,              \* Nothing (None), or Some(rows)
    list_of_paths,            \* file IDs handed to the standard extraction
    extracted_count,          \* Nothing while unbound in parse_backup
    backup_entries,           \* file IDs the opened backup has an entry for
    rp,                       \* locals of retrieve_photos_from_backup
    attempts,                 \* history: every extract_file_id call made
    strategies,               \* history: every extraction strategy invoked
    exception,                \* the exception that ended parse_backup
    recon,                    \* locals of the reconciliation block
    results,                  \* the results dictionary
    prestaged,                \* history: photo_dir when it was created
    external,                 \* history: files other processes put there
    ui,                       \* what run_parsing scheduled on the UI
    taxonomyquery,            \* the frame photo_taxonomy returned (SpecFilter)
    filter_hist,              \* history: that frame as returned, and the
                              \* rows each run of the filter kept
    container,                \* Manifest.plist of the backup (SpecHead)
    head,                     \* arguments and locals of the head of
                              \* parse_backup, lines 181-265 (SpecHead)
    ax,                       \* the artifact extraction of lines 290-320
                              \* (SpecArtifacts)
    app                       \* the App window and its threads (SpecBackup, SpecParse)

vars == << pc, taxonomy_target, artifacts, ai, photo_output_destination,
           photo_dir, filtered_df, list_of_paths, extracted_count, rp,
           attempts, strategies, exception, recon, results, prestaged,
           external, ui, backup_entries, taxonomyquery, filter_hist,
           container, head, ax, app >>

\* The locals of retrieve_photos_from_backup before its loop.
RpInit ==
    [ opened |-> "not called", extracted_count |-> 0, failed_ids |-> <<>>,
      missing_entry_count |-> 0, i |-> 1, log |-> <<>>, summary |-> Nothing ]

\* Nothing was returned by photo_taxonomy and the filter has not run.
FilterHistInit == [ given |-> Nothing, kept |-> <<>> ]

\* The locals of the reconciliation block before it runs.
ReconInit ==
    [ recovered_files |-> Nothing, status |-> <<>>, listdir_calls |-> 0,
      recovered_count |-> 0, total_attempted |-> 0, missing_count |-> 0,
      missing_files |-> <<>>, ran |-> FALSE, raised |-> {},
      summary |-> Nothing ]

Init ==
    /\ pc = "start"
    /\ taxonomy_target \in Targets
    /\ artifacts = <<>>
    /\ ai = 1
    /\ photo_output_destination = Nothing
    /\ photo_dir = {}
    /\ filtered_df = Nothing
    /\ list_of_paths = <<>>
    /\ extracted_count = Nothing
    /\ backup_entries = {}
    /\ rp = RpInit
    /\ attempts = <<>>
    /\ strategies = <<>>
    /\ exception = "none"
    /\ recon = ReconInit
    /\ results = [photo_analysis |-> <<>>, extracted_photos_path |-> Nothing,
                  reports_path |-> Nothing]
    /\ prestaged = {}
    /\ external = {}
    /\ ui = "parsing"
    /\ taxonomyquery = Nothing
    /\ filter_hist = FilterHistInit
    /\ container = Nothing
    /\ head = Nothing
    /\ ax = Nothing
    /\ app = Nothing

(* ------------------- parse_backup: the artifact loop ------------------ *)

\* Lines 181-331: the output folders, Info.plist, Manifest.plist, the
\* extraction of the fixed artifacts and the listing of the Artifacts folder.
Setup ==
    /\ pc = "start"
    /\ \E listing \in ArtifactListings : artifacts' = listing
    /\ ai' = 1
    /\ pc' = "artifact_loop"
    /\ UNCHANGED << taxonomy_target, photo_output_destination, photo_dir,
                    filtered_df, list_of_paths, extracted_count, rp, attempts,
                    strategies, exception, recon, results, prestaged,
                    external, ui, backup_entries,
                    taxonomyquery, filter_hist,
                    container, head, ax, app >>

\* Mutant: the photo processing is skipped for an empty target only.
SkipsPhotoProcessing_IfEmpty == taxonomy_target = ""

\* Line 628: taxonomy_target is None
SkipsPhotoProcessing == taxonomy_target = NoTarget

\* Lines 626-631: Photos.sqlite without a taxonomy target: continue, which
\* also skips the fallback checks at the end of the loop body.
SkipPhotos ==
    /\ pc = "artifact_loop"
    /\ ai <= Len(artifacts)
    /\ IsPhotosArtifact(artifacts[ai])
    /\ SkipsPhotoProcessing
    /\ ai' = ai + 1
    /\ UNCHANGED << pc, taxonomy_target, artifacts, photo_output_destination,
                    photo_dir, filtered_df, list_of_paths, extracted_count,
                    rp, attempts, strategies, exception, recon, results,
                    prestaged, external, ui, backup_entries,
                    taxonomyquery, filter_hist,
                    container, head, ax, app >>

\* Lines 333-625 for an artifact that is not Photos.sqlite: its own report
\* is written, and control reaches the checks of line 680.
OtherArtifact ==
    /\ pc = "artifact_loop"
    /\ ai <= Len(artifacts)
    /\ ~IsPhotosArtifact(artifacts[ai])
    /\ pc' = "check_direct"
    /\ UNCHANGED << taxonomy_target, artifacts, ai, photo_output_destination,
                    photo_dir, filtered_df, list_of_paths, extracted_count,
                    rp, attempts, strategies, exception, recon, results,
                    prestaged, external, ui, backup_entries,
                    taxonomyquery, filter_hist,
                    container, head, ax, app >>

\* Lines 656-661: one file ID per row of filtered_df, in row order.
\* Mutant: the IDs are collected in the reverse of the row order.
HashPaths_Reversed(df) ==
    [i \in 1..Len(df) |->
        calculate_itunes_photofile_name(pathdf(df)[Len(df) + 1 - i])]

\* The loop of lines 657-661 over pathdf, inside the try of lines 647-664:
\* the IDs of the paths in row order, up to the first path whose hashing
\* raises; the except clause of line 663 ends the loop there.
HashPaths(df) ==
    LET raising == { i \in 1..Len(df) : ~Utf8Encodable(pathdf(df)[i]) }
        hashed  == IF raising = {} THEN Len(df)
                   ELSE (CHOOSE i \in raising :
                             \A j \in raising : i <= j) - 1
    IN  [i \in 1..hashed |-> calculate_itunes_photofile_name(pathdf(df)[i])]

\* Lines 633-664: the photo folder is created (it may exist already, with
\* files in it), the taxonomy query is run and filtered, and every path of
\* the filtered rows is hashed. A failure of the query leaves filtered_df
\* None and list_of_paths empty. df stands for the rows the filter kept,
\* with the columns read later on; the filter itself is SpecFilter's.
PhotoTaxonomy ==
    /\ pc = "artifact_loop"
    /\ ai <= Len(artifacts)
    /\ IsPhotosArtifact(artifacts[ai])
    /\ ~SkipsPhotoProcessing
    /\ photo_output_destination' = Some("Photos_" \o taxonomy_target)
    /\ \E present \in SUBSET Filenames :
          /\ photo_dir' = present
          /\ prestaged' = present
    /\ \/ /\ \E df \in RowSeqs :
                /\ filtered_df' = Some(df)
                /\ results' = [results EXCEPT !.photo_analysis = df]
                /\ list_of_paths' = HashPaths(df)
       \/ /\ filtered_df' = Nothing
          /\ list_of_paths' = <<>>
          /\ UNCHANGED results
    /\ pc' = "retrieve"
    /\ UNCHANGED << taxonomy_target, artifacts, ai, extracted_count, rp,
                    attempts, strategies, exception, recon, external, ui,
                    backup_entries,
                    taxonomyquery, filter_hist,
                    container, head, ax, app >>

(* -------------------- retrieve_photos_from_backup --------------------- *)

\* Line 1448: a file was extracted.
OnExtracted(l, ID) ==
    [l EXCEPT !.extracted_count = @ + 1,
              !.log = Append(@, "Extracted")]

\* Lines 1450-1453: the backup has no entry for the ID.
OnMissingEntryError(l, ID) ==
    [l EXCEPT !.missing_entry_count = @ + 1,
              !.failed_ids = Append(@, ID),
              !.log = Append(@, "Missing entry")]

\* Mutant: the general handler forgets to record the failed ID.
OnException_NotRecorded(l, ID) ==
    [l EXCEPT !.log = Append(@, "Error extracting")]

\* Mutant: the general handler does what the MissingEntryError one does.
OnException_AsMissingEntry(l, ID) ==
    [l EXCEPT !.missing_entry_count = @ + 1,
              !.failed_ids = Append(@, ID),
              !.log = Append(@, "Missing entry")]

\* Lines 1454-1456: any other Exception, IOError among them.
OnException(l, ID) ==
    [l EXCEPT !.failed_ids = Append(@, ID),
              !.log = Append(@, "Error extracting")]

\* Lines 1446-1456: the try statement around one extract_file_id call.
TryExtract(l, ID, outcome) ==
    CASE outcome = "ok" -> OnExtracted(l, ID)
      [] outcome = "MissingEntryError" -> OnMissingEntryError(l, ID)
      [] OTHER -> OnException(l, ID)

\* Mutant: only MissingEntryError is handled inside the loop, so any other
\* exception leaves it.
LoopContinues_OnlyAfterMissingEntry(outcome) ==
    outcome \in {"ok", "MissingEntryError"}

\* Whether the loop of line 1445 goes on to the next ID after `outcome`:
\* both handlers are inside the loop body and neither raises nor breaks.
LoopContinues(outcome) == TRUE

\* Lines 669-674 with 1430-1433: the call, for an empty list: return 0.
RetrieveEmpty ==
    /\ pc = "retrieve"
    /\ list_of_paths = <<>>
    /\ strategies' = Append(strategies, "Standard")
    /\ extracted_count' = Some(0)
    /\ pc' = "check_direct"
    /\ UNCHANGED << taxonomy_target, artifacts, ai, photo_output_destination,
                    photo_dir, filtered_df, list_of_paths, rp, attempts,
                    exception, recon, results, prestaged, external, ui,
                    backup_entries,
                    taxonomyquery, filter_hist,
                    container, head, ax, app >>

\* Lines 669-674 with 1435-1443 and 1467-1469: the call, for a list that is
\* not empty: the backup is opened; if that raises, 0 is returned.
RetrieveOpen ==
    /\ pc = "retrieve"
    /\ list_of_paths # <<>>
    /\ strategies' = Append(strategies, "Standard")
    /\ \E opened \in OpenOutcomes :
          /\ rp' = [RpInit EXCEPT !.opened = opened]
          /\ backup_entries' \in
                IF opened = "ok" THEN SUBSET Range(list_of_paths) ELSE {{}}
          /\ IF opened = "ok"
             THEN /\ pc' = "retrieve_loop"
                  /\ UNCHANGED extracted_count
             ELSE /\ extracted_count' = Some(0)
                  /\ pc' = "check_direct"
    /\ UNCHANGED << taxonomy_target, artifacts, ai, photo_output_destination,
                    photo_dir, filtered_df, list_of_paths, attempts,
                    exception, recon, results, prestaged, external, ui,
                    taxonomyquery, filter_hist,
                    container, head, ax, app >>

\* Lines 1445-1456: one iteration of the loop over the file IDs.
RetrieveExtract ==
    /\ pc = "retrieve_loop"
    /\ rp.i <= Len(list_of_paths)
    /\ \E outcome \in ExtractOutcomes(list_of_paths[rp.i], backup_entries) :
          LET ID == list_of_paths[rp.i]
              l  == TryExtract(rp, ID, outcome)
          IN  /\ attempts' = Append(attempts, [ID |-> ID, outcome |-> outcome])
              /\ photo_dir' = IF outcome = "ok"
                              THEN photo_dir \cup {EntryFilename(ID)}
                              ELSE photo_dir
              /\ rp' = [l EXCEPT !.i = IF LoopContinues(outcome)
                                       THEN @ + 1
                                       ELSE Len(list_of_paths) + 1]
    /\ UNCHANGED << pc, taxonomy_target, artifacts, ai,
                    photo_output_destination, filtered_df, list_of_paths,
                    extracted_count, strategies, exception, recon, results,
                    prestaged, external, ui, backup_entries,
                    taxonomyquery, filter_hist,
                    container, head, ax, app >>

\* Lines 1458-1465: the summary is printed and the count returned.
\* The entries a summary line names, and the number its "(and N more)"
\* suffix gives; more is Nothing for a line without the suffix.
Display(shown, more) == [ shown |-> shown, more |-> more ]

\* The most failed IDs that lines 1460-1461 print in full, plus one.
FailedDisplayLimit == 10

\* Lines 1460-1463: the "Failed IDs:" line; Nothing when none is printed.
FailedIDsSummary(failed_ids) ==
    IF failed_ids # <<>> /\ Len(failed_ids) < FailedDisplayLimit
    THEN Some(Display(failed_ids, Nothing))
    ELSE IF failed_ids # <<>>
         THEN Some(Display(SubSeq(failed_ids, 1, 10),
                           Some(Len(failed_ids) - 10)))
         ELSE Nothing

RetrieveReturn ==
    /\ pc = "retrieve_loop"
    /\ rp.i > Len(list_of_paths)
    /\ rp' = [rp EXCEPT !.summary = FailedIDsSummary(rp.failed_ids)]
    /\ extracted_count' = Some(rp.extracted_count)
    /\ pc' = "check_direct"
    /\ UNCHANGED << taxonomy_target, artifacts, ai, photo_output_destination,
                    photo_dir, filtered_df, list_of_paths, attempts,
                    strategies, exception, recon, results, prestaged,
                    external, ui, backup_entries,
                    taxonomyquery, filter_hist,
                    container, head, ax, app >>

(* ------------- parse_backup: the checks after the extraction ---------- *)

\* Mutant: the test extracted_count == 0 is left out.
\* Mutant: the direct extraction is tried after an empty request too.
DirectGuard_NoListTest ==
    /\ IsSet(extracted_count)
    /\ Get(extracted_count) = 0

DirectGuard_NoCountTest ==
    /\ IsSet(extracted_count)
    /\ list_of_paths # <<>>

\* Line 680: 'extracted_count' in locals() and extracted_count == 0 and
\* list_of_paths
DirectGuard ==
    /\ IsSet(extracted_count)
    /\ Get(extracted_count) = 0
    /\ list_of_paths # <<>>

\* Line 698: the same condition again.
ManifestGuard ==
    /\ IsSet(extracted_count)
    /\ Get(extracted_count) = 0
    /\ list_of_paths # <<>>

\* Line 716: the same condition again.
ReportGuard ==
    /\ IsSet(extracted_count)
    /\ Get(extracted_count) = 0
    /\ list_of_paths # <<>>

\* Lines 679-695: the direct extraction. parse_ios_backup has no method
\* extract_photos_direct, so evaluating the call raises AttributeError,
\* which nothing in parse_backup catches.
CheckDirect ==
    /\ pc = "check_direct"
    /\ IF DirectGuard
       THEN /\ strategies' = Append(strategies, "Direct")
            /\ IF ClassLookup("extract_photos_direct") = "ok"
               THEN /\ pc' = "check_manifest"
                    /\ UNCHANGED exception
               ELSE /\ exception' = ClassLookup("extract_photos_direct")
                    /\ pc' = "raised"
       ELSE /\ pc' = "check_manifest"
            /\ UNCHANGED << strategies, exception >>
    /\ UNCHANGED << taxonomy_target, artifacts, ai, photo_output_destination,
                    photo_dir, filtered_df, list_of_paths, extracted_count,
                    rp, attempts, recon, results, prestaged, external, ui,
                    backup_entries,
                    taxonomyquery, filter_hist,
                    container, head, ax, app >>

\* Lines 697-713: the manifest.db extraction; extract_photos_manifest is
\* no method of parse_ios_backup either.
CheckManifest ==
    /\ pc = "check_manifest"
    /\ IF ManifestGuard
       THEN /\ strategies' = Append(strategies, "Manifest")
            /\ IF ClassLookup("extract_photos_manifest") = "ok"
               THEN /\ pc' = "check_report"
                    /\ UNCHANGED exception
               ELSE /\ exception' = ClassLookup("extract_photos_manifest")
                    /\ pc' = "raised"
       ELSE /\ pc' = "check_report"
            /\ UNCHANGED << strategies, exception >>
    /\ UNCHANGED << taxonomy_target, artifacts, ai, photo_output_destination,
                    photo_dir, filtered_df, list_of_paths, extracted_count,
                    rp, attempts, recon, results, prestaged, external, ui,
                    backup_entries,
                    taxonomyquery, filter_hist,
                    container, head, ax, app >>

\* Lines 715-722: the failure report; the module binds no name
\* report_photo_extraction_failure. The loop then goes to the next artifact.
CheckReport ==
    /\ pc = "check_report"
    /\ IF ReportGuard
       THEN /\ strategies' = Append(strategies, "Report")
            /\ IF GlobalLookup("report_photo_extraction_failure") = "ok"
               THEN /\ pc' = "artifact_loop"
                    /\ ai' = ai + 1
                    /\ UNCHANGED exception
               ELSE /\ exception' =
                           GlobalLookup("report_photo_extraction_failure")
                    /\ pc' = "raised"
                    /\ UNCHANGED ai
       ELSE /\ pc' = "artifact_loop"
            /\ ai' = ai + 1
            /\ UNCHANGED << strategies, exception >>
    /\ UNCHANGED << taxonomy_target, artifacts, photo_output_destination,
                    photo_dir, filtered_df, list_of_paths, extracted_count,
                    rp, attempts, recon, results, prestaged, external, ui,
                    backup_entries,
                    taxonomyquery, filter_hist,
                    container, head, ax, app >>

(* --------------------- parse_backup: reconciliation ------------------- *)

\* Line 725: photo_output_destination and os.path.exists(...) and
\* filtered_df is not None
ReconcileGuard ==
    /\ IsSet(photo_output_destination)
    /\ IsSet(filtered_df)

\* Mutant: the row is looked up by its path in the backup, not its name.
recovery_status_ByFullPath(row, recovered_files) ==
    IF (row.Path \o "/" \o row.Filename) \in recovered_files
    THEN "Recovered" ELSE "Missing"

\* Lines 730-735: the status of one row against the listed file names.
recovery_status(row, recovered_files) ==
    IF row.Filename \in recovered_files THEN "Recovered" ELSE "Missing"

\* Mutant: the folder is listed again for every row.
FilesSeenBy_Relisted(listed, directory) == directory

\* The file names recovery_status compares a row with: the set listed at
\* line 727, not the directory as it is when the row is looked at.
FilesSeenBy(listed, directory) == listed

\* Lines 725-727: the loop is over; the photo folder is listed.
ReconcileList ==
    /\ pc = "artifact_loop"
    /\ ai > Len(artifacts)
    /\ ReconcileGuard
    /\ recon' = [recon EXCEPT !.recovered_files = Some(photo_dir),
                              !.listdir_calls = @ + 1,
                              !.ran = TRUE]
    /\ pc' = "recovery_status"
    /\ UNCHANGED << taxonomy_target, artifacts, ai, photo_output_destination,
                    photo_dir, filtered_df, list_of_paths, extracted_count,
                    rp, attempts, strategies, exception, results, prestaged,
                    external, ui, backup_entries,
                    taxonomyquery, filter_hist,
                    container, head, ax, app >>

\* Line 740: filtered_df.apply(recovery_status, axis=1), one row at a time.
RecoveryStatusRow ==
    /\ pc = "recovery_status"
    /\ Len(recon.status) < Len(Get(filtered_df))
    /\ LET row == Get(filtered_df)[Len(recon.status) + 1]
           seen == FilesSeenBy(Get(recon.recovered_files), photo_dir)
       IN  recon' = [recon EXCEPT
                        !.status = Append(@, recovery_status(row, seen))]
    /\ UNCHANGED << pc, taxonomy_target, artifacts, ai,
                    photo_output_destination, photo_dir, filtered_df,
                    list_of_paths, extracted_count, rp, attempts, strategies,
                    exception, results, prestaged, external, ui,
                    backup_entries,
                    taxonomyquery, filter_hist,
                    container, head, ax, app >>

\* Mutant: the except clause reports the row as Missing.
recovery_status_except_AsMissing == "Missing"

\* Lines 736-737: what recovery_status returns when its try body raised.
recovery_status_except == "Error"

\* Line 740 for a row whose check raises inside recovery_status: the bare
\* except clause catches it and the row gets the status of that clause.
\* The membership test of lines 732-735 never raises of itself; this
\* step is the injected fault, and belongs to SpecFault alone.
RecoveryStatusRaises ==
    /\ pc = "recovery_status"
    /\ Len(recon.status) < Len(Get(filtered_df))
    /\ recon' = [recon EXCEPT
                    !.status = Append(@, recovery_status_except),
                    !.raised = @ \cup {Len(recon.status) + 1}]
    /\ UNCHANGED << pc, taxonomy_target, artifacts, ai,
                    photo_output_destination, photo_dir, filtered_df,
                    list_of_paths, extracted_count, rp, attempts, strategies,
                    exception, results, prestaged, external, ui,
                    backup_entries,
                    taxonomyquery, filter_hist,
                    container, head, ax, app >>

\* column == value as a selection: the indices of the rows of the column
\* that hold the value, in row order.
SelectIndices(column, value) ==
    LET F[i \in 0..Len(column)] ==
            IF i = 0 THEN <<>>
            ELSE IF column[i] = value THEN Append(F[i - 1], i) ELSE F[i - 1]
    IN  F[Len(column)]

\* Line 748: the file names of the rows whose status is Missing.
MissingFiles(df, status) ==
    LET idx == SelectIndices(status, "Missing")
    IN  [k \in 1..Len(idx) |-> df[idx[k]].Filename]

\* Line 743: the number of rows whose status is Recovered.
RecoveredCount(status) == Len(SelectIndices(status, "Recovered"))

\* Lines 742-754: the counts and the list of missing files.
\* The most missing files that lines 749-751 list in full.
MissingDisplayLimit == 10

\* Lines 745-754: the "Missing files:" line of extraction_summary; Nothing
\* when none is written.
MissingFilesSummary(missing_count, missing_files) ==
    IF missing_count > 0
    THEN IF Len(missing_files) <= MissingDisplayLimit
         THEN Some(Display(missing_files, Nothing))
         ELSE Some(Display(SubSeq(missing_files, 1, 10),
                           Some(Len(missing_files) - 10)))
    ELSE Nothing

Aggregate ==
    /\ pc = "recovery_status"
    /\ Len(recon.status) = Len(Get(filtered_df))
    /\ LET recovered_count == RecoveredCount(recon.status)
           total_attempted == Len(Get(filtered_df))
           missing_count   == total_attempted - recovered_count
       IN  recon' = [recon EXCEPT
                        !.recovered_count = recovered_count,
                        !.total_attempted = total_attempted,
                        !.missing_count = missing_count,
                        !.missing_files =
                            IF missing_count > 0
                            THEN MissingFiles(Get(filtered_df), recon.status)
                            ELSE <<>>,
                        !.summary =
                            MissingFilesSummary(missing_count,
                                MissingFiles(Get(filtered_df), recon.status))]
    /\ pc' = "finish"
    /\ UNCHANGED << taxonomy_target, artifacts, ai, photo_output_destination,
                    photo_dir, filtered_df, list_of_paths, extracted_count,
                    rp, attempts, strategies, exception, results, prestaged,
                    external, ui, backup_entries,
                    taxonomyquery, filter_hist,
                    container, head, ax, app >>

\* Lines 787-789: no photo folder or no filtered_df: nothing to reconcile.
ReconcileSkip ==
    /\ pc = "artifact_loop"
    /\ ai > Len(artifacts)
    /\ ~ReconcileGuard
    /\ pc' = "finish"
    /\ UNCHANGED << taxonomy_target, artifacts, ai, photo_output_destination,
                    photo_dir, filtered_df, list_of_paths, extracted_count,
                    rp, attempts, strategies, exception, recon, results,
                    prestaged, external, ui, backup_entries,
                    taxonomyquery, filter_hist,
                    container, head, ax, app >>

\* Lines 791-816: the paths are put into results, which is returned.
Finish ==
    /\ pc = "finish"
    /\ results' = [results EXCEPT
                      !.reports_path = Some("Reports"),
                      !.extracted_photos_path =
                          IF IsSet(photo_output_destination)
                          THEN photo_output_destination
                          ELSE @]
    /\ pc' = "done"
    /\ UNCHANGED << taxonomy_target, artifacts, ai, photo_output_destination,
                    photo_dir, filtered_df, list_of_paths, extracted_count,
                    rp, attempts, strategies, exception, recon, prestaged,
                    external, ui, backup_entries,
                    taxonomyquery, filter_hist,
                    container, head, ax, app >>

(* ---------------------------- environment ----------------------------- *)

\* Another process puts a file into the photo folder while the parse runs.
OtherProcess ==
    /\ IsSet(photo_output_destination)
    /\ pc \notin {"done", "raised", "thread_end"}
    /\ \E f \in Filenames \ photo_dir :
          /\ photo_dir' = photo_dir \cup {f}
          /\ external' = external \cup {f}
    /\ UNCHANGED << pc, taxonomy_target, artifacts, ai,
                    photo_output_destination, filtered_df, list_of_paths,
                    extracted_count, rp, attempts, strategies, exception,
                    recon, results, prestaged, ui, backup_entries,
                    taxonomyquery, filter_hist,
                    container, head, ax, app >>

(* ------------------------ App.start_parse ----------------------------- *)

\* run_parsing, app.py lines 775-802: the results are handed to
\* display_parse_results, an exception becomes an error message.
RunParsing ==
    /\ pc \in {"done", "raised"}
    /\ ui' = IF pc = "done" THEN "display_parse_results"
                            ELSE "update_parse_status(error)"
    /\ pc' = "thread_end"
    /\ UNCHANGED << taxonomy_target, artifacts, ai, photo_output_destination,
                    photo_dir, filtered_df, list_of_paths, extracted_count,
                    rp, attempts, strategies, exception, recon, results,
                    prestaged, external, backup_entries,
                    taxonomyquery, filter_hist,
                    container, head, ax, app >>

Next ==
    \/ Setup
    \/ SkipPhotos
    \/ OtherArtifact
    \/ PhotoTaxonomy
    \/ RetrieveEmpty
    \/ RetrieveOpen
    \/ RetrieveExtract
    \/ RetrieveReturn
    \/ CheckDirect
    \/ CheckManifest
    \/ CheckReport
    \/ ReconcileList
    \/ RecoveryStatusRow
    \/ Aggregate
    \/ ReconcileSkip
    \/ Finish
    \/ OtherProcess
    \/ RunParsing

Spec == Init /\ [][Next]_vars

\* ---- The two summary lines, over lists of up to MaxItems entries ----

\* The list of n entries whose k-th entry is k.
ItemList(n) == [k \in 1..n |-> k]

\* A batch ended with some failed IDs, and a reconciliation with some
\* missing files; neither summary is written yet.
InitSummary ==
    /\ pc = "start"
    /\ taxonomy_target \in Targets
    /\ artifacts = <<>>
    /\ ai = 1
    /\ photo_output_destination = Nothing
    /\ photo_dir = {}
    /\ filtered_df = Nothing
    /\ list_of_paths = <<>>
    /\ extracted_count = Nothing
    /\ backup_entries = {}
    /\ attempts = <<>>
    /\ strategies = <<>>
    /\ exception = "none"
    /\ results = [photo_analysis |-> <<>>, extracted_photos_path |-> Nothing,
                  reports_path |-> Nothing]
    /\ prestaged = {}
    /\ external = {}
    /\ ui = "parsing"
    /\ taxonomyquery = Nothing
    /\ filter_hist = FilterHistInit
    /\ container = Nothing
    /\ head = Nothing
    /\ ax = Nothing
    /\ app = Nothing
    /\ \E n \in 0..MaxItems :
           rp = [RpInit EXCEPT !.opened = "ok", !.failed_ids = ItemList(n)]
    /\ \E n \in 0..MaxItems :
           recon = [ReconInit EXCEPT !.ran = TRUE, !.missing_count = n,
                                     !.total_attempted = n,
                                     !.missing_files = ItemList(n)]

\* Lines 1458-1463 on the failed IDs of the batch.
SummaryOfFailedIDs ==
    /\ pc = "start"
    /\ pc' = "failed_ids_printed"
    /\ rp' = [rp EXCEPT !.summary = FailedIDsSummary(rp.failed_ids)]
    /\ UNCHANGED << taxonomy_target, artifacts, ai, photo_output_destination,
                    photo_dir, filtered_df, list_of_paths, extracted_count,
                    attempts, strategies, exception, recon, results,
                    prestaged, external, ui, backup_entries,
                    taxonomyquery, filter_hist,
                    container, head, ax, app >>

\* Lines 745-754 on the missing files of the reconciliation.
SummaryOfMissingFiles ==
    /\ pc = "failed_ids_printed"
    /\ pc' = "missing_files_written"
    /\ recon' = [recon EXCEPT
                    !.summary = MissingFilesSummary(recon.missing_count,
                                                    recon.missing_files)]
    /\ UNCHANGED << taxonomy_target, artifacts, ai, photo_output_destination,
                    photo_dir, filtered_df, list_of_paths, extracted_count,
                    rp, attempts, strategies, exception, results, prestaged,
                    external, ui, backup_entries,
                    taxonomyquery, filter_hist,
                    container, head, ax, app >>

NextSummary ==
    \/ SummaryOfFailedIDs
    \/ SummaryOfMissingFiles

SpecSummary == InitSummary /\ [][NextSummary]_vars

\* ---- The filter of lines 648-653, over the frame photo_taxonomy returns --

\* A cell of the Confidence column: the text format_as_percentage made of
\* a number (dtype "str"), or a number (dtype "num"). n is the integer
\* written or held; nan marks the text 'nan' and the number NaN.
Cell(dtype, n, nan) == [ dtype |-> dtype, n |-> n, nan |-> nan ]

\* What format_as_percentage (lines 76-77) can put into a row: a whole
\* number of percent as text, or 'nan'.
ConfidenceTexts ==
    { Cell("str", n, FALSE) : n \in {4, 5, 6} } \cup { Cell("str", 0, TRUE) }

\* The scene descriptions of the rows: the target's and another one.
Scenes == {"firearm", "document"}

\* The rows photo_taxonomy (lines 896-934) can return.
TaxonomyRows ==
    [ Scene_Classification : Scenes, Confidence : ConfidenceTexts,
      Path : {"DCIM/100APPLE"}, Filename : Filenames ]

TaxonomyFrames == UNION { [1..n -> TaxonomyRows] : n \in 0..MaxCatalog }

\* Mutant: a text that is no number becomes 0 (fillna(0)).
to_numeric_NaNAsZero(cell) == Cell("num", IF cell.nan THEN 0 ELSE cell.n, FALSE)

\* pd.to_numeric(..., errors='coerce') on one cell (line 649): the number
\* a text spells, NaN for a text that spells none; a number stays.
to_numeric(cell) == Cell("num", cell.n, cell.nan)

\* Line 649: the Confidence column of the frame is replaced.
ConfidenceToNumeric(frame) ==
    [i \in 1..Len(frame) |->
        [frame[i] EXCEPT !.Confidence = to_numeric(frame[i].Confidence)]]

\* The confidence a row must exceed (line 650).
MinConfidence == 5

\* Mutant: a confidence equal to the threshold passes too.
ConfidenceAbove_OrEqual(cell) == ~cell.nan /\ cell.n >= MinConfidence

\* taxonomyquery['Confidence'] > 5 on one cell; NaN > 5 is False.
ConfidenceAbove(cell) == ~cell.nan /\ cell.n > MinConfidence

\* Line 650: the rows of the frame the boolean mask keeps, in frame order.
FilterFrame(frame, target) ==
    LET F[i \in 0..Len(frame)] ==
            IF i = 0 THEN <<>>
            ELSE IF /\ frame[i].Scene_Classification = target
                    /\ ConfidenceAbove(frame[i].Confidence)
                 THEN Append(F[i - 1], frame[i])
                 ELSE F[i - 1]
    IN  F[Len(frame)]

\* photo_taxonomy returned a frame and a target is set; the filter has not
\* run.
InitFilter ==
    /\ pc = "start"
    /\ taxonomy_target \in Targets \ {NoTarget}
    /\ artifacts = <<>>
    /\ ai = 1
    /\ photo_output_destination = Nothing
    /\ photo_dir = {}
    /\ filtered_df = Nothing
    /\ list_of_paths = <<>>
    /\ extracted_count = Nothing
    /\ backup_entries = {}
    /\ rp = RpInit
    /\ attempts = <<>>
    /\ strategies = <<>>
    /\ exception = "none"
    /\ recon = ReconInit
    /\ results = [photo_analysis |-> <<>>, extracted_photos_path |-> Nothing,
                  reports_path |-> Nothing]
    /\ prestaged = {}
    /\ external = {}
    /\ ui = "parsing"
    /\ container = Nothing
    /\ head = Nothing
    /\ ax = Nothing
    /\ app = Nothing
    /\ \E frame \in TaxonomyFrames :
          /\ taxonomyquery = Some(frame)
          /\ filter_hist = [FilterHistInit EXCEPT !.given = Some(frame)]

\* Lines 649-653 on the frame as it stands.
RunFilter(next) ==
    LET frame == ConfidenceToNumeric(Get(taxonomyquery))
        kept  == FilterFrame(frame, taxonomy_target)
    IN  /\ taxonomyquery' = Some(frame)
        /\ filtered_df' = Some(kept)
        /\ results' = [results EXCEPT !.photo_analysis = kept]
        /\ filter_hist' = [filter_hist EXCEPT !.kept = Append(@, kept)]
        /\ pc' = next
        /\ UNCHANGED << taxonomy_target, artifacts, ai,
                        photo_output_destination, photo_dir, list_of_paths,
                        extracted_count, rp, attempts, strategies, exception,
                        recon, prestaged, external, ui, backup_entries,
                    container, head, ax, app >>

\* The filter runs on the frame photo_taxonomy returned.
Filter ==
    /\ pc = "start"
    /\ RunFilter("filtered")

\* The same lines run once more, on the frame the first run left.
FilterAgain ==
    /\ pc = "filtered"
    /\ RunFilter("filtered_again")

NextFilter ==
    \/ Filter
    \/ FilterAgain

SpecFilter == InitFilter /\ [][NextFilter]_vars

\* ---- The head of parse_backup (lines 181-265) and the App's own check ---

\* Everything the parse itself keeps, but pc: untouched by the steps below.
pipelineVars ==
    << taxonomy_target, artifacts, ai, photo_output_destination, photo_dir,
       filtered_df, list_of_paths, extracted_count, rp, attempts, strategies,
       exception, recon, results, prestaged, external, ui, backup_entries,
       taxonomyquery, filter_hist >>

\* A path is the sequence of its components; a path written with a
\* trailing separator ends with an empty component.
StripSeparator(path) ==
    IF path # <<>> /\ path[Len(path)] = ""
    THEN SubSeq(path, 1, Len(path) - 1) ELSE path

\* os.path.dirname: everything before the last separator.
os_path_dirname(path) == SubSeq(path, 1, Len(path) - 1)

\* os.path.join(path, name): one separator between them, none added after
\* a trailing one.
os_path_join(path, name) == StripSeparator(path) \o <<name>>

\* The backup folder entry of the App: as a dialog gives it, or typed with
\* a trailing separator.
BackupPaths == { <<"cases", "backup">>, <<"cases", "backup", "">> }

\* The output folder entry: empty (no output_dir), a folder elsewhere, or
\* a folder the user picked inside the backup folder.
OutputDirs ==
    { Nothing, Some(<<"reports">>), Some(<<"cases", "backup", "out">>) }

\* datetime.now().strftime("%Y%m%d%H%M%S"), to the second.
Timestamps == { "20240101120000", "20240101120001" }

Passwords == { "", "secret" }

\* Manifest.plist of the backup: absent; present but not a property list
\* that can be loaded; or loaded, with IsEncrypted missing, true or false.
ManifestPlist(exists, loads, IsEncrypted) ==
    [ exists |-> exists, loads |-> loads, IsEncrypted |-> IsEncrypted ]

ManifestStates ==
    { ManifestPlist(FALSE, FALSE, Nothing),
      ManifestPlist(TRUE, FALSE, Nothing),
      ManifestPlist(TRUE, TRUE, Nothing),
      ManifestPlist(TRUE, TRUE, Some(TRUE)),
      ManifestPlist(TRUE, TRUE, Some(FALSE)) }

\* Mutant: a missing key reads as True.
dict_get_DefaultTrue(entry, default) ==
    IF IsSet(entry) THEN Get(entry) ELSE TRUE

\* dict.get(key, default) for the entry of the key.
dict_get(entry, default) == IF IsSet(entry) THEN Get(entry) ELSE default

\* Mutant: any password given counts, the empty one too.
bool_NotNone(password) == TRUE

\* bool(password)
bool(password) == password # ""

\* Lines 190-194: the folder all output goes under.
ReportOutputDestination(backup_path, output_dir, now) ==
    IF IsSet(output_dir) THEN Get(output_dir)
    ELSE os_path_join(os_path_join(os_path_dirname(backup_path),
                                   "ArsenicReports"), now)

\* Lines 196-206: the folders made, or found there, after the makedirs
\* calls: the output folder, the folders above it, Artifacts and Reports.
OutputFolders(destination) ==
    { SubSeq(destination, 1, n) : n \in 1..Len(destination) }
      \cup { os_path_join(destination, "Artifacts"),
             os_path_join(destination, "Reports") }

\* Lines 249-253: encryption_status before Manifest.plist is looked at.
EncryptionStatusInit ==
    [ is_encrypted |-> FALSE, requires_password |-> FALSE,
      has_password |-> FALSE ]

\* Lines 255-265: encryption_status after it; a Manifest.plist that is
\* absent or raises when loaded leaves the initial values.
EncryptionStatus(manifest, password) ==
    IF manifest.exists /\ manifest.loads
    THEN LET is_encrypted == dict_get(manifest.IsEncrypted, FALSE)
         IN  [ is_encrypted |-> is_encrypted,
               requires_password |-> is_encrypted,
               has_password |-> IF is_encrypted THEN bool(password)
                                                ELSE TRUE ]
    ELSE EncryptionStatusInit

\* App.is_backup_encrypted, app.py lines 2229-2247.
is_backup_encrypted(manifest) ==
    IF ~manifest.exists THEN FALSE
    ELSE IF manifest.loads THEN dict_get(manifest.IsEncrypted, FALSE)
         ELSE TRUE

\* A backup folder with some Manifest.plist, and the values the App has in
\* its entries; nothing is browsed or parsed yet.
InitHead ==
    /\ pc = "browse"
    /\ taxonomy_target \in Targets
    /\ artifacts = <<>>
    /\ ai = 1
    /\ photo_output_destination = Nothing
    /\ photo_dir = {}
    /\ filtered_df = Nothing
    /\ list_of_paths = <<>>
    /\ extracted_count = Nothing
    /\ backup_entries = {}
    /\ rp = RpInit
    /\ attempts = <<>>
    /\ strategies = <<>>
    /\ exception = "none"
    /\ recon = ReconInit
    /\ results = [photo_analysis |-> <<>>, extracted_photos_path |-> Nothing,
                  reports_path |-> Nothing]
    /\ prestaged = {}
    /\ external = {}
    /\ ui = "parsing"
    /\ taxonomyquery = Nothing
    /\ filter_hist = FilterHistInit
    /\ ax = Nothing
    /\ container \in { Some(m) : m \in ManifestStates }
    /\ \E backup_path \in BackupPaths, output_dir \in OutputDirs,
          password \in Passwords, now \in Timestamps :
          head = [ backup_path |-> backup_path, output_dir |-> output_dir,
                   password |-> password, now |-> now,
                   report_output_destination |-> Nothing, made |-> {},
                   encryption_status |-> Nothing ]
    /\ app = [ password_field |-> Nothing ]

\* browse_backup_folder, app.py lines 513-527: the password field is shown
\* if is_backup_encrypted says so.
BrowseBackupFolder ==
    /\ pc = "browse"
    /\ app' = [app EXCEPT
                  !.password_field = Some(is_backup_encrypted(Get(container)))]
    /\ pc' = "parse"
    /\ UNCHANGED << pipelineVars, container, head, ax >>

\* Lines 189-206: the output folders are made.
MakeOutputFolders ==
    /\ pc = "parse"
    /\ LET destination ==
               ReportOutputDestination(head.backup_path, head.output_dir,
                                       head.now)
       IN  head' = [head EXCEPT
                      !.report_output_destination = Some(destination),
                      !.made = @ \cup OutputFolders(destination)]
    /\ pc' = "encryption"
    /\ UNCHANGED << pipelineVars, container, ax, app >>

\* Lines 248-265: the encryption status is worked out.
CheckEncryption ==
    /\ pc = "encryption"
    /\ head' = [head EXCEPT
                   !.encryption_status =
                       Some(EncryptionStatus(Get(container), head.password))]
    /\ pc' = "photos"
    /\ UNCHANGED << pipelineVars, container, ax, app >>

\* Lines 641-644, reached for Photos.sqlite with a target: the photo
\* folder is made under the output folder.
MakePhotoFolder ==
    /\ pc = "photos"
    /\ ~SkipsPhotoProcessing
    /\ head' = [head EXCEPT
                   !.made = @ \cup
                       { os_path_join(Get(head.report_output_destination),
                                      "Photos_" \o taxonomy_target) }]
    /\ pc' = "photo_folder_made"
    /\ UNCHANGED << pipelineVars, container, ax, app >>

NextHead ==
    \/ BrowseBackupFolder
    \/ MakeOutputFolders
    \/ CheckEncryption
    \/ MakePhotoFolder

SpecHead == InitHead /\ [][NextHead]_vars

\* ---- The artifact extraction of lines 290-320, and the parse after it ---

\* Lines 292-307: the file IDs of the artifacts, in the order of the list.
list_of_fileIDs ==
    << "12b144c0bd44f2b3dffd9186d3f9c05b917cee25",
       "0d609c54856a9bb2d56729df1d68f2958a88426b",
       "31bb7ba8914766d4ba40d6dfb6113c8b614be442",
       "943624fd13e27b800cc6d9ce1100c22356ee365c",
       "3d0d7e5fb2ce288813306e4d4636395e047a3d28",
       "64d0019cb3d46bfc8cce545a8ba54b93e7ea9347",
       "5a4935c78a5255723f707230a451d79c540d2741",
       "ed1f8fb5a948b40504c19580a458c384659a605e",
       "51a4616e576dd33cd2abadfea874eb8ff246bf0e",
       "ca3bc056d4da0bbf88b5fb3be254f3b7147e639c",
       "1f5a521220a3ad80ebfdc196978df8e7a2e49dee",
       "e74113c185fd8297e140cfcf9c99436c5cc06b57",
       "1a0e7afc19d307da602ccdcece51af33afe92c53",
       "992df473bbb9e132f4b3b6e4d33f72171e97bc7a" >>

\* The extraction before it starts: the backup not opened, no file ID
\* tried, none failed.
AxInit ==
    [ opened |-> "not called", i |-> 1, attempted |-> <<>>,
      failed |-> FALSE, over |-> FALSE ]

\* parse_backup stands before line 290.
InitArtifacts ==
    /\ pc = "extract_artifacts"
    /\ taxonomy_target \in Targets
    /\ artifacts = <<>>
    /\ ai = 1
    /\ photo_output_destination = Nothing
    /\ photo_dir = {}
    /\ filtered_df = Nothing
    /\ list_of_paths = <<>>
    /\ extracted_count = Nothing
    /\ backup_entries = {}
    /\ rp = RpInit
    /\ attempts = <<>>
    /\ strategies = <<>>
    /\ exception = "none"
    /\ recon = ReconInit
    /\ results = [photo_analysis |-> <<>>, extracted_photos_path |-> Nothing,
                  reports_path |-> Nothing]
    /\ prestaged = {}
    /\ external = {}
    /\ ui = "parsing"
    /\ taxonomyquery = Nothing
    /\ filter_hist = FilterHistInit
    /\ container = Nothing
    /\ head = Nothing
    /\ app = Nothing
    /\ ax = Some(AxInit)

\* Line 310: Backup.from_path; an exception is caught at line 318 and the
\* parse goes on at line 322 with no file ID tried.
ArtifactOpen ==
    /\ pc = "extract_artifacts"
    /\ \E opened \in {"ok", "Exception"} :
          /\ ax' = Some([Get(ax) EXCEPT !.opened = opened,
                                        !.over = (opened # "ok")])
          /\ pc' = IF opened = "ok" THEN "extract_artifact_loop" ELSE "start"
    /\ UNCHANGED << pipelineVars, container, head, app >>

\* Lines 311-317: one file ID is tried; an exception is caught at line 315
\* and the loop goes on.
ArtifactExtract ==
    /\ pc = "extract_artifact_loop"
    /\ Get(ax).i <= Len(list_of_fileIDs)
    /\ \E outcome \in {"ok", "Exception"} :
          ax' = Some([Get(ax) EXCEPT
                        !.attempted = Append(@, list_of_fileIDs[Get(ax).i]),
                        !.failed = @ \/ outcome # "ok",
                        !.i = @ + 1])
    /\ UNCHANGED << pc, pipelineVars, container, head, app >>

\* The loop of line 311 is over; the parse goes on at line 322.
ArtifactLoopEnd ==
    /\ pc = "extract_artifact_loop"
    /\ Get(ax).i > Len(list_of_fileIDs)
    /\ ax' = Some([Get(ax) EXCEPT !.over = TRUE])
    /\ pc' = "start"
    /\ UNCHANGED << pipelineVars, container, head, app >>

NextArtifacts ==
    \/ ArtifactOpen
    \/ ArtifactExtract
    \/ ArtifactLoopEnd
    \/ Next

SpecArtifacts == InitArtifacts /\ [][NextArtifacts]_vars

\* ---- The App window (app.py): its buttons, its threads, its event queue --

\* A widget update, and the thread that made it.
Update(widget, thread) == [ widget |-> widget, thread |-> thread ]

\* A run_backup thread, and a run_parsing thread.
BackupWorker(state) == [ state |-> state, status_sent |-> FALSE ]

ParseWorker(backup_path, output_dir) ==
    [ state |-> "started", backup_path |-> backup_path,
      output_dir |-> output_dir, report_output_destination |-> Nothing ]

\* The window after construction: the backup button enabled, no thread,
\* nothing scheduled; the entries hold what the user chose.
InitApp ==
    /\ pc = "mainloop"
    /\ taxonomy_target = NoTarget
    /\ artifacts = <<>>
    /\ ai = 1
    /\ photo_output_destination = Nothing
    /\ photo_dir = {}
    /\ filtered_df = Nothing
    /\ list_of_paths = <<>>
    /\ extracted_count = Nothing
    /\ backup_entries = {}
    /\ rp = RpInit
    /\ attempts = <<>>
    /\ strategies = <<>>
    /\ exception = "none"
    /\ recon = ReconInit
    /\ results = [photo_analysis |-> <<>>, extracted_photos_path |-> Nothing,
                  reports_path |-> Nothing]
    /\ prestaged = {}
    /\ external = {}
    /\ ui = "parsing"
    /\ taxonomyquery = Nothing
    /\ filter_hist = FilterHistInit
    /\ container = Nothing
    /\ head = Nothing
    /\ ax = Nothing
    /\ \E folder_path \in {"", "Backups"},
          output_dir \in {Nothing, Some(<<"reports">>)} :
          app = [ folder_path |-> folder_path,
                  backup_folder_path |-> <<"cases", "backup">>,
                  output_folder_path |-> output_dir,
                  backup_button |-> "normal",
                  backups |-> <<>>,
                  parses |-> <<>>,
                  device_checks |-> "none",
                  after |-> <<>>,
                  updates |-> {} ]

\* browse_folder, app.py lines 507-511: a backup location is picked.
BrowseFolder ==
    /\ app.folder_path = ""
    /\ app' = [app EXCEPT !.folder_path = "Backups"]
    /\ UNCHANGED << pc, pipelineVars, container, head, ax >>

\* start_backup with an empty location, app.py lines 718-723: a message,
\* and nothing else.
StartBackupWithoutLocation ==
    /\ app.backup_button = "normal"
    /\ app.folder_path = ""
    /\ app' = [app EXCEPT
                  !.updates = @ \cup {Update("status_text", "main")}]
    /\ UNCHANGED << pc, pipelineVars, container, head, ax >>

\* start_backup with a location, app.py lines 725-748: the button is
\* disabled and a run_backup thread is started. A disabled button does
\* not call its command.
StartBackup ==
    /\ app.backup_button = "normal"
    /\ app.folder_path # ""
    /\ Len(app.backups) < MaxBackups
    /\ app' = [app EXCEPT
                  !.updates = @ \cup { Update("status_text", "main"),
                                       Update("progress_bar", "main"),
                                       Update("backup_button", "main") },
                  !.backup_button = "disabled",
                  !.backups = Append(@, BackupWorker("running"))]
    /\ UNCHANGED << pc, pipelineVars, container, head, ax >>

\* initiate_backup reports a status or a progress value: the callbacks of
\* app.py lines 737-738 schedule the widget update with after.
BackupReports ==
    /\ \E w \in 1..Len(app.backups), callback \in
              {"update_status", "update_progress"} :
          /\ app.backups[w].state = "running"
          /\ ~app.backups[w].status_sent
          /\ app' = [app EXCEPT
                        !.backups[w].status_sent = TRUE,
                        !.after = Append(@, callback)]
    /\ UNCHANGED << pc, pipelineVars, container, head, ax >>

\* Mutant: after an exception the button is not enabled again.
BackupCallbacks_NoEnableOnException(outcome) ==
    IF outcome = "exception" THEN << "update_status(e)" >>
    ELSE << "update_status", "enable_backup_button" >>

\* What run_backup schedules when initiate_backup is over, app.py lines
\* 741-746: for a result, true or false, and for an exception.
BackupCallbacks(outcome) ==
    IF outcome = "exception"
    THEN << "update_status(e)", "enable_backup_button" >>
    ELSE << "update_status", "enable_backup_button" >>

\* initiate_backup returns true or false, or raises, and run_backup ends.
BackupEnds ==
    /\ \E w \in 1..Len(app.backups),
          outcome \in {"completed", "failed", "exception"} :
          /\ app.backups[w].state = "running"
          /\ app' = [app EXCEPT
                        !.backups[w].state = outcome,
                        !.after = @ \o BackupCallbacks(outcome)]
    /\ UNCHANGED << pc, pipelineVars, container, head, ax >>

\* start_parse, app.py lines 750-802: the status label is set and a
\* run_parsing thread is started with the values of the entries. Nothing
\* disables the parse button.
StartParse ==
    /\ Len(app.parses) < MaxParses
    /\ app' = [app EXCEPT
                  !.updates = @ \cup {Update("parse_status_text", "main")},
                  !.parses = Append(@, ParseWorker(app.backup_folder_path,
                                                   app.output_folder_path))]
    /\ UNCHANGED << pc, pipelineVars, container, head, ax >>

\* The head of parse_backup in a run_parsing thread: status_callback is
\* App.update_parse_status itself (app.py line 781), called where
\* parse_backup stands (lines 186-210), and the output folders are made,
\* named after the second datetime.now() gives then.
ParseMakesFolders ==
    /\ \E t \in 1..Len(app.parses), now \in Timestamps :
          /\ app.parses[t].state = "started"
          /\ app' = [app EXCEPT
                        !.updates = @ \cup
                            {Update("parse_status_text", "worker")},
                        !.parses[t].state = "running",
                        !.parses[t].report_output_destination =
                            Some(ReportOutputDestination(
                                     app.parses[t].backup_path,
                                     app.parses[t].output_dir, now))]
    /\ UNCHANGED << pc, pipelineVars, container, head, ax >>

\* parse_backup returns or raises, and run_parsing schedules the display
\* of the results or of the error (app.py lines 788, 799).
ParseEnds ==
    /\ \E t \in 1..Len(app.parses), outcome \in {"returned", "raised"} :
          /\ app.parses[t].state = "running"
          /\ app' = [app EXCEPT
                        !.parses[t].state = outcome,
                        !.after = Append(@,
                            IF outcome = "returned"
                            THEN "display_parse_results"
                            ELSE "update_parse_status")]
    /\ UNCHANGED << pc, pipelineVars, container, head, ax >>

\* refresh_device_info, app.py lines 538-560: widgets are reset and a
\* get_info thread is started.
RefreshDeviceInfo ==
    /\ app.device_checks = "none"
    /\ app' = [app EXCEPT
                  !.updates = @ \cup {Update("device_status", "main")},
                  !.device_checks = "running"]
    /\ UNCHANGED << pc, pipelineVars, container, head, ax >>

\* get_info finds a device or none and schedules the widget update.
GetInfoEnds ==
    /\ app.device_checks = "running"
    /\ \E callback \in {"_update_device_info", "device_status"} :
          app' = [app EXCEPT !.device_checks = "ended",
                             !.after = Append(@, callback)]
    /\ UNCHANGED << pc, pipelineVars, container, head, ax >>

\* The widget a scheduled callback updates. The callback of line 745
\* reads e after the except clause has unbound it: it raises NameError in
\* the main loop and updates nothing.
WidgetOf(callback) ==
    CASE callback = "update_status" -> {"status_text"}
      [] callback = "update_status(e)" -> {}
      [] callback = "update_progress" -> {"progress_bar"}
      [] callback = "enable_backup_button" -> {"backup_button"}
      [] callback = "display_parse_results" -> {"results"}
      [] callback = "update_parse_status" -> {"parse_status_text"}
      [] callback = "_update_device_info" -> {"device_info_text"}
      [] callback = "device_status" -> {"device_status"}

\* The main loop runs the callback scheduled first.
MainLoop ==
    /\ app.after # <<>>
    /\ app' = [app EXCEPT
                  !.after = Tail(@),
                  !.updates = @ \cup
                      { Update(w, "main") : w \in WidgetOf(Head(app.after)) },
                  !.backup_button =
                      IF Head(app.after) = "enable_backup_button"
                      THEN "normal" ELSE @]
    /\ UNCHANGED << pc, pipelineVars, container, head, ax >>

\* The backup tab: backups, the device information, the main loop.
NextBackup ==
    \/ BrowseFolder
    \/ StartBackupWithoutLocation
    \/ StartBackup
    \/ BackupReports
    \/ BackupEnds
    \/ RefreshDeviceInfo
    \/ GetInfoEnds
    \/ MainLoop

SpecBackup == InitApp /\ [][NextBackup]_vars

\* The same, with a main loop that goes on running scheduled callbacks.
SpecBackupFair == SpecBackup /\ WF_vars(MainLoop)

\* The parse tab: parses and the main loop.
NextParse ==
    \/ StartParse
    \/ ParseMakesFolders
    \/ ParseEnds
    \/ MainLoop

SpecParse == InitApp /\ [][NextParse]_vars

\* The parse with a fault injected into the status checks.
NextFault ==
    \/ Next
    \/ RecoveryStatusRaises

SpecFault == Init /\ [][NextFault]_vars

(* ------------------------------ properties ---------------------------- *)

IsPrefix(s, t) ==
    /\ Len(s) <= Len(t)
    /\ \A k \in 1..Len(s) : s[k] = t[k]

\* The standard extraction extracted at least one file.
SomeExtracted == \E k \in 1..Len(attempts) : attempts[k].outcome = "ok"

\* retrieve_photos_from_backup has returned to parse_backup.
Returned == IsSet(extracted_count)

C2_NotFoundAfterAllStrategies ==
    pc = "done" =>
        \A i \in 1..Len(recon.status) :
            recon.status[i] = "Missing" =>
                {"Standard", "Direct", "Manifest"} \subseteq Range(strategies)

\* C3: extract_file_id is called for the file IDs in list order, one call
\* per position, and once the backup was opened the loop reaches the end of
\* the list whatever the calls raised.
C3_EveryIdentityAttempted ==
    /\ Len(attempts) <= Len(list_of_paths)
    /\ \A k \in 1..Len(attempts) : attempts[k].ID = list_of_paths[k]
    /\ pc = "retrieve_loop" => rp.i = Len(attempts) + 1
    /\ (rp.opened = "ok" /\ Returned) => Len(attempts) = Len(list_of_paths)

\* C3 witness: the first file ID raised, the second was attempted all the
\* same, and the function returned.
C3_Witness ==
    /\ Returned
    /\ Len(attempts) = 2
    /\ attempts[1].outcome = "Exception"
    /\ attempts[2].outcome = "ok"

\* The per-identity results retrieve_photos_from_backup holds: the files it
\* counted as extracted and the IDs it recorded as failed.
ResultCount == rp.extracted_count + Len(rp.failed_ids)

C5_IOErrorStopsBatch ==
    \A k \in 1..Len(attempts) :
        attempts[k].outcome = "IOError" =>
            /\ k = Len(attempts)
            /\ attempts[k].ID \notin Range(rp.failed_ids)

\* The number of calls of extract_file_id that ended with an outcome of S.
Count(S) == Cardinality({ k \in 1..Len(attempts) : attempts[k].outcome \in S })

\* C6: a MissingEntryError is counted in missing_entry_count and logged as
\* a missing entry, any other exception is logged as an error and is not
\* counted there, both record the ID as failed, and after either the loop
\* stands at the next ID.
C6_MissingEntryDistinguished ==
    /\ Len(rp.log) = Len(attempts)
    /\ \A k \in 1..Len(attempts) :
          /\ attempts[k].outcome = "ok" <=> rp.log[k] = "Extracted"
          /\ attempts[k].outcome = "MissingEntryError"
                <=> rp.log[k] = "Missing entry"
          /\ attempts[k].outcome \in {"IOError", "Exception"}
                <=> rp.log[k] = "Error extracting"
    /\ rp.missing_entry_count = Count({"MissingEntryError"})
    /\ Len(rp.failed_ids) = Count({"MissingEntryError", "IOError", "Exception"})
    /\ pc = "retrieve_loop" => rp.i = Len(attempts) + 1

\* C6 witness: a missing entry, then another exception, and the function
\* returned.
C6_Witness ==
    /\ Returned
    /\ Len(attempts) = 2
    /\ attempts[1].outcome = "MissingEntryError"
    /\ attempts[2].outcome = "Exception"

\* parse_backup has ended, by returning or by raising.
Ended == pc \in {"done", "raised"}

\* C7 (as claimed): when parse_backup has ended, the failure report was
\* made exactly if identities were requested and none was extracted.
C7_ReportIffNothingExtracted ==
    Ended =>
        ("Report" \in Range(strategies)
            <=> (list_of_paths # <<>> /\ ~SomeExtracted))

\* C8 (as claimed): parse_backup never ends by raising.
C8_ParseBackupReturns == pc # "raised"

\* The i-th requested record was extracted by the pass.
ExtractedAt(i) == i <= Len(attempts) /\ attempts[i].outcome = "ok"

\* The file names of the rows of df the pass did not extract, in row order.
NotExtractedFilenames(df) ==
    LET F[i \in 0..Len(df)] ==
            IF i = 0 THEN <<>>
            ELSE IF ExtractedAt(i) THEN F[i - 1]
                 ELSE Append(F[i - 1], df[i].Filename)
    IN  F[Len(df)]

\* What C9 says of a finished reconciliation.
ReconciliationMatchesExtraction ==
    LET df == Get(filtered_df)
    IN  /\ \A i \in 1..Len(df) :
              recon.status[i] = "Recovered" <=> ExtractedAt(i)
        /\ recon.missing_files = NotExtractedFilenames(df)
        /\ recon.recovered_count = Count({"ok"})
        /\ recon.missing_count = Len(df) - Count({"ok"})

\* C9 (as claimed): whatever the photo folder held before the pass, the
\* records reported Recovered are those extracted, and the missing file
\* names are those of the records not extracted.
C9_RecoveredIffExtracted ==
    (pc = "done" /\ recon.ran) => ReconciliationMatchesExtraction

\* The photo folder got none of the requested file names from anything but
\* the pass, and no two requested records share a file name.
OnlyThisPassWrote ==
    LET df == Get(filtered_df)
    IN  /\ \A i \in 1..Len(df) : df[i].Filename \notin prestaged \cup external
        /\ \A i, j \in 1..Len(df) :
              df[i].Filename = df[j].Filename => i = j

\* C9 (amended): the same, for a photo folder that got none of the
\* requested file names from anything but this pass, and requested records
\* with distinct file names.
C9_RecoveredIffExtractedInOwnFolder ==
    (pc = "done" /\ recon.ran /\ OnlyThisPassWrote)
        => ReconciliationMatchesExtraction

\* C9 witness: two records requested, one extracted, one not, reconciled in
\* a folder only the pass wrote to.
C9_Witness ==
    /\ pc = "done"
    /\ recon.ran
    /\ OnlyThisPassWrote
    /\ Len(attempts) = 2
    /\ recon.recovered_count = 1
    /\ recon.missing_count = 1

\* C10: the photo folder is listed once, and each status computed is
\* Recovered exactly if the row's file name is in that one listing.
C10_StatusFromOneListing ==
    /\ recon.listdir_calls = (IF recon.ran THEN 1 ELSE 0)
    /\ recon.ran =>
          /\ Len(recon.status) <= Len(Get(filtered_df))
          /\ \A i \in 1..Len(recon.status) :
                recon.status[i] =
                    IF Get(filtered_df)[i].Filename \in Get(recon.recovered_files)
                    THEN "Recovered" ELSE "Missing"

\* C10 witness: every row has its status; the first is Missing though
\* another process has put its file into the folder after the listing, the
\* second is Recovered.
C10_Witness ==
    /\ pc = "finish"
    /\ recon.ran
    /\ Len(recon.status) = 2
    /\ recon.status[1] = "Missing"
    /\ Get(filtered_df)[1].Filename \in photo_dir
    /\ recon.status[2] = "Recovered"

\* The reconciliation block has run to its end.
Reconciled == recon.ran /\ pc \in {"finish", "done", "thread_end"}

NotRecoveredFilenames(df, status) ==
    LET F[i \in 0..Len(df)] ==
            IF i = 0 THEN <<>>
            ELSE IF status[i] = "Recovered" THEN F[i - 1]
                 ELSE Append(F[i - 1], df[i].Filename)
    IN  F[Len(df)]

ShownAsClaimed(list, line) ==
    IF Len(list) > MissingDisplayLimit
    THEN /\ line.shown = SubSeq(list, 1, 10)
         /\ line.more = Some(Len(list) - 10)
         /\ Get(line.more) >= 1
    ELSE /\ line.shown = list
         /\ line.more = Nothing

\* C13 (as claimed): the failed-IDs line and the missing-files line are
\* cut to 10 entries plus "(and N more)" only for a list of more than 10
\* entries, with N the length minus 10, and give a list of 10 or fewer in
\* full.
C13_TruncatedOnlyBeyondTen ==
    /\ IsSet(rp.summary) => ShownAsClaimed(rp.failed_ids, Get(rp.summary))
    /\ IsSet(recon.summary) =>
           ShownAsClaimed(recon.missing_files, Get(recon.summary))

\* The relative path of row i of df, as line 656 builds it.
RowPath(df, i) == df[i].Path \o "/" \o df[i].Filename

\* C15: the i-th file ID handed to the extraction is the ID of the i-th
\* filtered row and is the i-th one tried; the i-th status is the status
\* of the i-th row; the missing file names come in row order.
C15_ResultOrderIsInputOrder ==
    /\ list_of_paths # <<>> => IsSet(filtered_df)
    /\ \A i \in 1..Len(list_of_paths) :
          /\ i <= Len(Get(filtered_df))
          /\ list_of_paths[i] =
                 calculate_itunes_photofile_name(RowPath(Get(filtered_df), i))
    /\ \A i \in 1..Len(attempts) : attempts[i].ID = list_of_paths[i]
    /\ \A i \in 1..Len(recon.status) :
          recon.status[i] = "Recovered"
              <=> Get(filtered_df)[i].Filename \in Get(recon.recovered_files)
    /\ Reconciled =>
          /\ Len(recon.status) = Len(Get(filtered_df))
          /\ recon.missing_files =
                 NotRecoveredFilenames(Get(filtered_df), recon.status)

\* C15 witness: two rows with different paths and file names, both tried
\* in row order, the first Missing and the second Recovered.
C15_Witness ==
    /\ pc = "done"
    /\ Len(list_of_paths) = 2
    /\ list_of_paths[1] # list_of_paths[2]
    /\ Len(attempts) = 2
    /\ recon.status = <<"Missing", "Recovered">>
    /\ Get(filtered_df)[1].Filename # Get(filtered_df)[2].Filename

\* C18: when the filter kept no row, no file ID is asked for, the backup
\* is not opened and nothing is tried, no fallback and no failure report
\* is run, and nothing is raised.
C18_NoMatchNothingRun ==
    (IsSet(filtered_df) /\ Get(filtered_df) = <<>>) =>
        /\ list_of_paths = <<>>
        /\ attempts = <<>>
        /\ rp.opened = "not called"
        /\ \A k \in 1..Len(strategies) : strategies[k] = "Standard"
        /\ exception = "none"
        /\ pc # "raised"
        /\ IsSet(extracted_count) => Get(extracted_count) = 0

\* C18 witness: parse_backup returned from a run whose filter kept no row,
\* after the reconciliation of the empty request.
C18_Witness ==
    /\ pc = "done"
    /\ filtered_df = Some(<<>>)
    /\ extracted_count = Some(0)
    /\ recon.ran
    /\ results.photo_analysis = <<>>

\* Relative paths that differ in case, in separator or by one separator.
PathSamples ==
    { "DCIM/100APPLE/IMG_0001.JPG", "dcim/100apple/img_0001.jpg",
      "DCIM\\100APPLE\\IMG_0001.JPG", "DCIM/100APPLE//IMG_0001.JPG",
      "/DCIM/100APPLE/IMG_0001.JPG", "DCIM/100APPLE/IMG_0002.JPG" }

\* C19: the file ID of a path is the digest of "CameraRollDomain-Media/"
\* followed by the path as given: paths differing in case or separator
\* have different hash inputs, equal paths equal IDs, and every ID the
\* parse asks for is the digest of the prefix and its row's path.
C19_HashesPrefixAndPath ==
    /\ \A p \in PathSamples :
          calculate_itunes_photofile_name(p)
              = sha1("CameraRollDomain-Media/" \o p)
    /\ \A p, q \in PathSamples :
          calculate_itunes_photofile_name(p)
              = calculate_itunes_photofile_name(q) <=> p = q
    /\ \A i \in 1..Len(list_of_paths) :
          list_of_paths[i] =
              sha1("CameraRollDomain-Media/" \o RowPath(Get(filtered_df), i))

\* C19 witness: two rows of the same file name in different directories
\* got different file IDs.
C19_Witness ==
    /\ Len(list_of_paths) = 2
    /\ Get(filtered_df)[1].Filename = Get(filtered_df)[2].Filename
    /\ Get(filtered_df)[1].Path # Get(filtered_df)[2].Path
    /\ list_of_paths[1] # list_of_paths[2]

\* C20 (as claimed): a filtered row whose path cannot be encoded is not
\* extracted, and every other filtered row has its file ID computed and,
\* once the extraction has run over an opened backup, tried.
C20_EncodingFaultIsPerItem ==
    (IsSet(filtered_df) /\ pc \notin {"start", "artifact_loop"}) =>
        \A i \in 1..Len(Get(filtered_df)) :
            LET thing == RowPath(Get(filtered_df), i)
                ID    == calculate_itunes_photofile_name(thing)
            IN  IF Utf8Encodable(thing)
                THEN /\ \E k \in 1..Len(list_of_paths) : list_of_paths[k] = ID
                     /\ (Returned /\ rp.opened \notin {"IOError", "Exception"})
                            => \E k \in 1..Len(attempts) : attempts[k].ID = ID
                ELSE \A k \in 1..Len(attempts) : attempts[k].ID # ID

\* The filter has run on the frame.
Filtered == filter_hist.kept # <<>>

\* Row r of the frame as returned is one the claimed predicate selects:
\* its scene is the target and its confidence, as a number, is above 5.
Selected(r) ==
    /\ r.Scene_Classification = taxonomy_target
    /\ ~r.Confidence.nan
    /\ r.Confidence.n > 5

\* The rows of the frame as returned that the claimed predicate selects.
SelectedIndices ==
    { i \in 1..Len(Get(filter_hist.given)) : Selected(Get(filter_hist.given)[i]) }

\* C16: the rows the filter keeps are rows of the frame, each of the
\* target's scene and of confidence above 5; every such row of the frame
\* is kept, once and in frame order; a row of confidence 5 or 4 is not
\* kept and one of confidence 6 for the target is.
C16_FilterIsExactPredicate ==
    Filtered =>
        LET given == Get(filter_hist.given)
            kept  == filter_hist.kept[1]
        IN  /\ \A k \in 1..Len(kept) :
                  /\ kept[k] \in Range(Get(taxonomyquery))
                  /\ kept[k].Scene_Classification = taxonomy_target
                  /\ kept[k].Confidence.n > 5
                  /\ ~kept[k].Confidence.nan
            /\ Len(kept) = Cardinality(SelectedIndices)
            /\ \E at \in [1..Len(kept) -> SelectedIndices] :
                  /\ \A k, l \in 1..Len(kept) : k < l => at[k] < at[l]
                  /\ \A k \in 1..Len(kept) :
                        /\ kept[k].Path = given[at[k]].Path
                        /\ kept[k].Filename = given[at[k]].Filename
                        /\ kept[k].Confidence.n = given[at[k]].Confidence.n
            /\ \A i \in 1..Len(given), k \in 1..Len(kept) :
                  given[i].Confidence.n \in {4, 5}
                      => kept[k].Confidence.n # given[i].Confidence.n

\* C16 witness: three rows of the target's scene with confidence 5, 6 and
\* 4; the filter kept the second alone.
C16_Witness ==
    /\ Filtered
    /\ Len(Get(filter_hist.given)) = 3
    /\ \A i \in 1..3 :
          /\ Get(filter_hist.given)[i].Scene_Classification = taxonomy_target
          /\ Get(filter_hist.given)[i].Confidence
                 = Cell("str", <<5, 6, 4>>[i], FALSE)
    /\ Len(filter_hist.kept[1]) = 1
    /\ filter_hist.kept[1][1].Confidence.n = 6

Invocations(strategy) ==
    Cardinality({ k \in 1..Len(strategies) : strategies[k] = strategy })

C26_NoTargetNoPhotoProcessing ==
    taxonomy_target = NoTarget =>
        /\ photo_output_destination = Nothing
        /\ photo_dir = {}
        /\ filtered_df = Nothing
        /\ list_of_paths = <<>>
        /\ extracted_count = Nothing
        /\ attempts = <<>>
        /\ strategies = <<>>
        /\ rp.opened = "not called"
        /\ ~recon.ran
        /\ results.photo_analysis = <<>>
        /\ results.extracted_photos_path = Nothing
        /\ pc # "raised"

\* C26 witness: parse_backup returned from a call without a target whose
\* listing held Photos.sqlite and another artifact after it.
C26_Witness ==
    /\ taxonomy_target = NoTarget
    /\ artifacts = <<"Photos.sqlite", "sms.db">>
    /\ pc = "done"
    /\ IsSet(results.reports_path)

\* path lies inside the folder backup_path names.
InsideBackup(path, backup_path) ==
    LET folder == StripSeparator(backup_path)
    IN  /\ Len(path) > Len(folder)
        /\ SubSeq(path, 1, Len(folder)) = folder

\* C21 (as claimed): every folder parse_backup makes, and so every file it
\* writes, lies outside the backup folder.
C21_NothingWrittenInsideBackup ==
    IsSet(head) =>
        \A path \in head.made : ~InsideBackup(path, head.backup_path)

\* C23: a Manifest.plist that loads and has no IsEncrypted makes both
\* parse_backup and the App's is_backup_encrypted say not encrypted.
C23_MissingFieldMeansNotEncrypted ==
    (IsSet(container) /\ Get(container).loads
       /\ Get(container).IsEncrypted = Nothing) =>
        /\ IsSet(app.password_field) => Get(app.password_field) = FALSE
        /\ IsSet(head.encryption_status) =>
               Get(head.encryption_status).is_encrypted = FALSE

\* C23 witness: both answers were given for such a Manifest.plist.
C23_Witness ==
    /\ IsSet(container)
    /\ Get(container) = ManifestPlist(TRUE, TRUE, Nothing)
    /\ app.password_field = Some(FALSE)
    /\ IsSet(head.encryption_status)
    /\ Get(head.encryption_status).is_encrypted = FALSE

\* C27 (as claimed): whatever the state of Manifest.plist, the App's
\* is_backup_encrypted and parse_backup's is_encrypted agree.
C27_SameAnswerEverywhere ==
    (IsSet(head) /\ IsSet(head.encryption_status)
       /\ IsSet(app.password_field)) =>
        Get(app.password_field) = Get(head.encryption_status).is_encrypted

\* C28 (as claimed): requires_password is is_encrypted; has_password holds
\* whenever is_encrypted does not; and when is_encrypted holds,
\* has_password says whether the password is non-empty.
C28_EncryptionStatusConsistent ==
    (IsSet(head) /\ IsSet(head.encryption_status)) =>
        LET status == Get(head.encryption_status)
        IN  /\ status.requires_password = status.is_encrypted
            /\ ~status.is_encrypted => status.has_password
            /\ status.is_encrypted =>
                   (status.has_password <=> head.password # "")

\* C28 (amended): requires_password is is_encrypted; if Manifest.plist was
\* loaded, has_password holds for a backup that is not encrypted and, for
\* an encrypted one, says whether the password is non-empty; if
\* Manifest.plist is absent or could not be loaded, all three are false.
C28_ConsistentWhenManifestLoaded ==
    (IsSet(head) /\ IsSet(head.encryption_status)) =>
        LET status   == Get(head.encryption_status)
            manifest == Get(container)
        IN  /\ status.requires_password = status.is_encrypted
            /\ IF manifest.exists /\ manifest.loads
               THEN /\ ~status.is_encrypted => status.has_password
                    /\ status.is_encrypted =>
                           (status.has_password <=> head.password # "")
               ELSE status = [ is_encrypted |-> FALSE,
                               requires_password |-> FALSE,
                               has_password |-> FALSE ]

\* C28 witness: an encrypted backup parsed with an empty password.
C28_Witness ==
    /\ IsSet(head)
    /\ IsSet(head.encryption_status)
    /\ Get(container).IsEncrypted = Some(TRUE)
    /\ head.password = ""
    /\ Get(head.encryption_status)
           = [ is_encrypted |-> TRUE, requires_password |-> TRUE,
               has_password |-> FALSE ]

\* The file IDs of the artifact list are tried once each, in list order,
\* whatever failed before; none is tried if the backup could not be opened.
ArtifactsTriedInOrder ==
    IsSet(ax) =>
        /\ IsPrefix(Get(ax).attempted, list_of_fileIDs)
        /\ Get(ax).attempted = SubSeq(list_of_fileIDs, 1, Get(ax).i - 1)
        /\ (Get(ax).over /\ Get(ax).opened = "ok")
               => Get(ax).attempted = list_of_fileIDs
        /\ Get(ax).opened # "ok" => Get(ax).attempted = <<>>

\* C24 (as claimed): the file IDs of the artifact list are tried once
\* each, in list order, whatever failed before; if the backup cannot be
\* opened none is tried, and the parse goes on over the files in Artifacts
\* and returns its results.
C24_ArtifactFailuresNotFatal ==
    /\ ArtifactsTriedInOrder
    /\ (IsSet(ax) /\ Get(ax).opened = "Exception") => pc # "raised"

\* The parses that have made their output folders and are not over.
RunningParses ==
    { t \in 1..Len(app.parses) : app.parses[t].state = "running" }

\* The Artifacts folder of a parse (line 199).
ArtifactsFolder(t) ==
    os_path_join(Get(app.parses[t].report_output_destination), "Artifacts")

\* C22: two parses started from the App that run at the same time write
\* to distinct output folders.
C22_OverlappingParsesUseDistinctFolders ==
    IsSet(app) =>
        \A t, u \in RunningParses :
            t # u => ArtifactsFolder(t) # ArtifactsFolder(u)

\* The run_backup threads whose initiate_backup call is not over.
RunningBackups ==
    { w \in 1..Len(app.backups) : app.backups[w].state = "running" }

\* The backup started last is over with the given outcome.
LastBackupEnded(outcome) ==
    /\ IsSet(app)
    /\ app.backups # <<>>
    /\ app.backups[Len(app.backups)].state = outcome

BackupButtonEnabled == IsSet(app) /\ app.backup_button = "normal"

\* While a backup runs the button is disabled and no other backup runs;
\* the button is disabled only for a backup that runs or whose enabling
\* callback waits in the main loop.
BackupButtonGuardsWorker ==
    IsSet(app) =>
        /\ Cardinality(RunningBackups) <= 1
        /\ RunningBackups # {} => app.backup_button = "disabled"
        /\ app.backup_button = "disabled" =>
               \/ RunningBackups # {}
               \/ \E k \in 1..Len(app.after) :
                      app.after[k] = "enable_backup_button"

\* C29: the backup button is disabled from the start of a backup with a
\* location until the backup is over, so at most one backup runs at a
\* time; whether the backup completes, fails or raises, the button is
\* enabled again in the end; a start without a location starts no backup
\* and leaves the button enabled.
C29_BackupButtonDisabledUntilOver ==
    /\ []BackupButtonGuardsWorker
    /\ [][ /\ StartBackup =>
                 /\ app'.backup_button = "disabled"
                 /\ Len(app'.backups) = Len(app.backups) + 1
           /\ StartBackupWithoutLocation =>
                 /\ app'.backups = app.backups
                 /\ app'.after = app.after
                 /\ app'.backup_button = "normal" ]_vars
    /\ LastBackupEnded("completed") ~> BackupButtonEnabled
    /\ LastBackupEnded("failed") ~> BackupButtonEnabled
    /\ LastBackupEnded("exception") ~> BackupButtonEnabled

\* C29 witness: a backup raised, the button was enabled again, a second
\* backup was started and is over, and the button is enabled once more.
C29_Witness ==
    /\ IsSet(app)
    /\ Len(app.backups) = 2
    /\ app.backups[1].state = "exception"
    /\ app.backups[2].state = "failed"
    /\ app.after = <<>>
    /\ app.backup_button = "normal"

\* C30: every widget update a worker thread causes is made on the main
\* thread, by a scheduled callback.
C30_WidgetUpdatesOnMainThread ==
    IsSet(app) => \A u \in app.updates : u.thread = "main"

====
